---- MODULE Spec2Model ----
(***************************************************************************)
(* Model of ExistsMap<K, V> (src/src/lib.rs): a map that keeps, for each   *)
(* key, only the 64-bit digest of the key under the map's ahash            *)
(* RandomState, wrapped in ExistsItem<K>, and the value.                   *)
(***************************************************************************)
EXTENDS Integers, Sequences, FiniteSets, TLC

\* Bounds of the model.
NKeys == 2
NDigests == 2
NValues == 2

\* The values of K (what its Hash implementation feeds to the hasher), the
\* u64 digests and the values of V, each cut down to a small range.
Keys == 0 .. (NKeys - 1)
Digests == 0 .. (NDigests - 1)
Values == 1 .. NValues

\* Option<T>: None, Some(v).
None == << >>
Some(v) == << v >>
Option(S) == {None} \cup {Some(v) : v \in S}

\* The two forms a key is passed in: as the owned type K (insert, get, and
\* contains/remove with Q = K) or as a borrowed form Q with K: Borrow<Q>
\* (String and str). Both forms of one key feed the same bytes to a hasher.
Owned(k) == [form |-> "owned", val |-> k]
Borrowed(k) == [form |-> "borrowed", val |-> k]
OwnedKeys == {Owned(k) : k \in Keys}
QueryKeys == OwnedKeys \cup {Borrowed(k) : k \in Keys}

\* ahash::RandomState: a seeded, deterministic function from what is hashed
\* to a u64. Every such function is a possible state.
RandomStates == [Keys -> Digests]

\* <K as Hash>::hash and <Q as Hash>::hash: what a key feeds to the hasher.
\* K: Borrow<Q> requires the borrowed form to hash as the owned one does
\* (String hashes as its str), so the form is not part of what is fed.
hash_feed(key) == key.val

\* RandomState::hash_one(key): the digest of what the key feeds.
hash_one(st, key) == st[hash_feed(key)]

\* ExistsItem::new(&key, &state)
ExistsItem_new_unseeded(key, st) == [hashed_key |-> key.val % NDigests]
ExistsItem_new(key, st) == [hashed_key |-> hash_one(st, key)]

\* <ExistsItem<K> as From<u64>>::from(hashed_key)
ExistsItem_from_default(hashed_key) == [hashed_key |-> 0]
ExistsItem_from(hashed_key) == [hashed_key |-> hashed_key]

\* ExistsItem's PartialEq: equality of hashed_key alone.
ExistsItem_eq(a, b) == a.hashed_key = b.hashed_key

\* std HashMap<ExistsItem<K>, V> as a function from the stored items to
\* their values; the items are found by ExistsItem_eq.
HashMap_find(m, item) == {i \in DOMAIN m : ExistsItem_eq(i, item)}
HashMap_contains_key(m, item) == HashMap_find(m, item) # {}
HashMap_get(m, item) ==
    IF HashMap_contains_key(m, item)
    THEN Some(m[CHOOSE i \in HashMap_find(m, item) : TRUE])
    ELSE None
HashMap_insert(m, item, value) ==
    [i \in (DOMAIN m \ HashMap_find(m, item)) \cup {item} |->
        IF i = item THEN value ELSE m[i]]
HashMap_remove(m, item) ==
    [i \in DOMAIN m \ HashMap_find(m, item) |-> m[i]]

VARIABLES
    state,    \* ExistsMap.state
    map,      \* ExistsMap.map
    last,     \* the last call: its name, key, value and result
    ever,     \* history: the keys ever passed to insert
    live,     \* history: key -> the value of its last insert, None once a
              \* remove was called on its digest
    fresh,    \* history: so far only inserts of pairwise distinct keys
              \* (and reads) were made
    removed   \* history: the keys whose remove returned Some and after which
              \* no insert was made

vars == << state, map, last, ever, live, fresh, removed >>

Self == [state |-> state, map |-> map]

\* ExistsMap::insert(&mut self, key, value) -> Option<V>
insert_keep_old(self, key, value) ==
    LET item == ExistsItem_new(key, self.state)
    IN  [state |-> self.state,
         map |-> IF HashMap_contains_key(self.map, item) THEN self.map
                 ELSE HashMap_insert(self.map, item, value),
         ret |-> HashMap_get(self.map, item)]
insert_returns_none(self, key, value) ==
    LET item == ExistsItem_new(key, self.state)
    IN  [state |-> self.state,
         map |-> HashMap_insert(self.map, item, value),
         ret |-> None]
insert(self, key, value) ==
    LET item == ExistsItem_new(key, self.state)
    IN  [state |-> self.state,
         map |-> HashMap_insert(self.map, item, value),
         ret |-> HashMap_get(self.map, item)]

\* ExistsMap::get(&self, key) -> Option<&V>
get_unhashed(self, key) ==
    HashMap_get(self.map, ExistsItem_from(key.val))
get(self, key) ==
    LET item == ExistsItem_new(key, self.state)
    IN  HashMap_get(self.map, item)

\* ExistsMap::contains(&self, key: &Q) -> bool
contains_nonempty(self, key) == DOMAIN self.map # {}
contains(self, key) ==
    LET h == hash_one(self.state, key)
        item == ExistsItem_from(h)
    IN  HashMap_contains_key(self.map, item)

\* ExistsMap::remove(&mut self, key: &Q) -> Option<V>
remove_keep(self, key) ==
    LET h == hash_one(self.state, key)
        item == ExistsItem_from(h)
    IN  [state |-> self.state,
         map |-> self.map,
         ret |-> HashMap_get(self.map, item)]
remove_unhashed(self, key) ==
    LET item == ExistsItem_from(key.val)
    IN  [state |-> self.state,
         map |-> HashMap_remove(self.map, item),
         ret |-> HashMap_get(self.map, item)]
remove_clear(self, key) ==
    LET h == hash_one(self.state, key)
        item == ExistsItem_from(h)
    IN  [state |-> self.state,
         map |-> << >>,
         ret |-> HashMap_get(self.map, item)]
remove(self, key) ==
    LET h == hash_one(self.state, key)
        item == ExistsItem_from(h)
    IN  [state |-> self.state,
         map |-> HashMap_remove(self.map, item),
         ret |-> HashMap_get(self.map, item)]

Call(op, key, val, ret) == [op |-> op, key |-> key, val |-> val, ret |-> ret]

\* ExistsMap { map: HashMap::new(), state: RandomState::with_seed(..) }
Init ==
    /\ state \in RandomStates
    /\ map = << >>
    /\ last = Call("new", None, None, None)
    /\ ever = {}
    /\ live = [k \in Keys |-> None]
    /\ fresh = TRUE
    /\ removed = {}

Insert(key, value) ==
    LET r == insert(Self, key, value)
    IN  /\ state' = r.state
        /\ map' = r.map
        /\ last' = Call("insert", Some(key), Some(value), r.ret)
        /\ ever' = ever \cup {key.val}
        /\ live' = [live EXCEPT ![key.val] = Some(value)]
        /\ fresh' = (fresh /\ key.val \notin ever)
        /\ removed' = {}

Get(key) ==
    /\ last' = Call("get", Some(key), None, get(Self, key))
    /\ UNCHANGED << state, map, ever, live, fresh, removed >>

Contains(key) ==
    /\ last' = Call("contains", Some(key), None, contains(Self, key))
    /\ UNCHANGED << state, map, ever, live, fresh, removed >>

Remove(key) ==
    LET r == remove(Self, key)
    IN  /\ state' = r.state
        /\ map' = r.map
        /\ last' = Call("remove", Some(key), None, r.ret)
        /\ live' = [k \in Keys |->
                      IF hash_one(state, Owned(k)) = hash_one(state, key)
                      THEN None ELSE live[k]]
        /\ fresh' = FALSE
        /\ removed' = IF r.ret # None THEN removed \cup {key.val} ELSE removed
        /\ UNCHANGED ever

Next ==
    \/ \E key \in OwnedKeys, value \in Values : Insert(key, value)
    \/ \E key \in OwnedKeys : Get(key)
    \/ \E key \in QueryKeys : Contains(key)
    \/ \E key \in QueryKeys : Remove(key)

Spec == Init /\ [][Next]_vars

TypeOK ==
    /\ state \in RandomStates
    /\ DOMAIN map \subseteq {ExistsItem_from(d) : d \in Digests}
    /\ \A i \in DOMAIN map : map[i] \in Values
    /\ last.op \in {"new", "insert", "get", "contains", "remove"}

(***************************************************************************)
(* Vocabulary of the properties.                                           *)
(***************************************************************************)

\* ExistsMap after the step.
SelfNext == [state |-> state', map |-> map']

\* The digest of key value k under the map's hash state.
Digest(k) == hash_one(state, Owned(k))

\* The key of the last call.
LastKey == last.key[1]

\* No two keys that were inserted have the same digest.
NoCollision == \A k1, k2 \in ever : k1 # k2 => Digest(k1) # Digest(k2)

\* The table holds an entry under digest d.
Stored(d) == \E i \in DOMAIN map : i.hashed_key = d

\* C1 (insert/get roundtrip): after only inserts of pairwise distinct keys
\* into the empty map, none of which collide, get of each inserted key
\* returns Some of the value inserted with it, both as the result of get on
\* the state reached and as the result the call get returned.
C1_RoundTrip ==
    (fresh /\ NoCollision) =>
        /\ \A k \in ever : live[k] # None /\ get(Self, Owned(k)) = live[k]
        /\ (last.op = "get" /\ LastKey.val \in ever) =>
               last.ret = live[LastKey.val]

C1_Witness ==
    /\ fresh /\ NoCollision
    /\ ever = Keys
    /\ last.op = "get"
    /\ last.ret # None
    /\ \E k \in ever : live[k] # last.ret

\* C2 as stated (non-membership): a key that was never inserted is absent to
\* get and to contains in every reachable state.
C2_NonMembership ==
    \A k \in Keys \ ever :
        /\ get(Self, Owned(k)) = None
        /\ ~contains(Self, Owned(k))
        /\ ~contains(Self, Borrowed(k))

\* C2 amended: a key that was never inserted and whose digest is not the
\* digest of any inserted key is absent to get and to contains.
C2_NonMembershipNoCollision ==
    /\ \A k \in Keys \ ever :
           (\A j \in ever : Digest(j) # Digest(k)) =>
               /\ get(Self, Owned(k)) = None
               /\ ~contains(Self, Owned(k))
               /\ ~contains(Self, Borrowed(k))
    /\ (/\ last.op \in {"get", "contains"}
        /\ LastKey.val \notin ever
        /\ \A j \in ever : Digest(j) # Digest(LastKey.val)) =>
           last.ret = (IF last.op = "get" THEN None ELSE FALSE)

C2_Witness ==
    /\ map # << >>
    /\ last.op = "contains"
    /\ LastKey.val \notin ever
    /\ \A j \in ever : Digest(j) # Digest(LastKey.val)
    /\ last.ret = FALSE

\* C3 (update overwrite): when insert(k, v2) directly follows insert(k, v1),
\* it returns Some(v1), get(k) then returns Some(v2), and the table has as
\* many entries as before it.
C3_UpdateOverwrite ==
    [][(last.op = "insert" /\ last'.op = "insert" /\ last'.key = last.key) =>
          /\ last'.ret = last.val
          /\ get(SelfNext, last'.key[1]) = last'.val
          /\ Cardinality(DOMAIN map') = Cardinality(DOMAIN map)]_vars

C3_Witness ==
    /\ last.op = "insert"
    /\ ever = {LastKey.val}
    /\ last.ret # None
    /\ last.ret # last.val
    /\ get(Self, LastKey) = last.val

\* C4 (remove is destructive): a key whose remove returned Some, with no
\* insert made since, is absent to get and contains, and remove of it
\* returns None.
C4_RemoveDestructive ==
    /\ \A k \in removed :
           /\ get(Self, Owned(k)) = None
           /\ ~contains(Self, Owned(k))
           /\ ~contains(Self, Borrowed(k))
           /\ remove(Self, Owned(k)).ret = None
           /\ remove(Self, Borrowed(k)).ret = None
    /\ (last.op = "get" /\ LastKey.val \in removed) => last.ret = None
    /\ (last.op = "contains" /\ LastKey.val \in removed) => last.ret = FALSE

C4_Witness ==
    /\ last.op = "remove"
    /\ last.ret = None
    /\ LastKey.val \in removed
    /\ map # << >>

\* C5 (borrow-form consistency): contains and remove give the same result
\* for the borrowed form of a key as for its owned form, and an entry
\* inserted through the owned key whose digest was not removed since is
\* found by contains and remove called with the borrowed form.
C5_BorrowConsistency ==
    /\ \A k \in Keys :
           /\ contains(Self, Borrowed(k)) = contains(Self, Owned(k))
           /\ remove(Self, Borrowed(k)) = remove(Self, Owned(k))
           /\ live[k] # None =>
                  /\ contains(Self, Borrowed(k))
                  /\ remove(Self, Borrowed(k)).ret # None
    /\ (last.op = "contains" /\ live[LastKey.val] # None) => last.ret = TRUE

C5_Witness ==
    /\ last.op = "contains"
    /\ LastKey.form = "borrowed"
    /\ live[LastKey.val] # None
    /\ last.ret = TRUE

\* C6 (collisions): when insert(k2, v2) directly follows insert(k1, v1) with
\* k1 # k2 of one digest, it returns Some(v1) and the table holds one entry
\* of that digest; get(k1) and get(k2) are then Some(v2), contains(k1) holds,
\* and remove(k1) returns Some(v2) and leaves k2 absent. And every remove
\* returns what get of a colliding key returned before it and leaves that
\* key absent.
C6_Collision ==
    [][/\ (/\ last.op = "insert" /\ last'.op = "insert"
           /\ last'.key # last.key
           /\ hash_one(state, last'.key[1]) = hash_one(state, last.key[1])) =>
              LET k1 == last.key[1]
                  k2 == last'.key[1]
                  r == remove(SelfNext, k1)
                  after == [state |-> r.state, map |-> r.map]
              IN  /\ last'.ret = last.val
                  /\ Cardinality(HashMap_find(map',
                         ExistsItem_from(hash_one(state', k2)))) = 1
                  /\ get(SelfNext, k1) = last'.val
                  /\ get(SelfNext, k2) = last'.val
                  /\ contains(SelfNext, k1)
                  /\ r.ret = last'.val
                  /\ get(after, k2) = None
                  /\ ~contains(after, k2)
       /\ last'.op = "remove" =>
              \A k2 \in Keys :
                  Digest(k2) = hash_one(state, last'.key[1]) =>
                      /\ last'.ret = get(Self, Owned(k2))
                      /\ get(SelfNext, Owned(k2)) = None
                      /\ ~contains(SelfNext, Owned(k2))]_vars

C6_Witness ==
    /\ last.op = "insert"
    /\ last.ret # None
    /\ last.ret # last.val
    /\ \E k1 \in ever :
           /\ k1 # LastKey.val
           /\ Digest(k1) = Digest(LastKey.val)
           /\ live[k1] = last.ret
           /\ get(Self, Owned(k1)) = last.val
    /\ Cardinality(DOMAIN map) = 1

\* C7 (contains): contains(k) holds exactly when the table holds an entry
\* under the digest of k, which is exactly when get(k) is Some; the call
\* contains returns that, and changes neither the table nor the hash state.
C7_ContainsIffStored ==
    /\ [](/\ \A q \in QueryKeys :
                 contains(Self, q) <=> Stored(hash_one(state, q))
          /\ \A k \in Keys :
                 contains(Self, Owned(k)) <=> get(Self, Owned(k)) # None
          /\ last.op = "contains" =>
                 last.ret = Stored(hash_one(state, LastKey)))
    /\ [][last'.op = "contains" => (map' = map /\ state' = state)]_vars

C7_Witness ==
    /\ last.op = "contains"
    /\ LastKey.form = "owned"
    /\ last.ret = TRUE
    /\ \E k \in Keys : ~contains(Self, Owned(k))

\* C8 (misses): get and remove of a key whose digest is not in the table
\* return None and leave the table as it was; every call can be made in
\* every state and returns an Option or a bool, never a fault.
C8_MissIsAbsence ==
    /\ [](/\ \A key \in OwnedKeys, value \in Values : ENABLED Insert(key, value)
          /\ \A key \in OwnedKeys : ENABLED Get(key)
          /\ \A key \in QueryKeys : ENABLED Contains(key) /\ ENABLED Remove(key)
          /\ IF last.op = "contains" THEN last.ret \in BOOLEAN
             ELSE last.ret \in Option(Values))
    /\ [][(/\ last'.op \in {"get", "remove"}
           /\ ~Stored(hash_one(state, last'.key[1]))) =>
              /\ last'.ret = None
              /\ map' = map
              /\ state' = state]_vars

C8_Witness ==
    /\ last.op = "remove"
    /\ last.ret = None
    /\ ~Stored(hash_one(state, LastKey))
    /\ map # << >>
    /\ removed = {}

\* C9 (frame): insert(k, v) and remove(k) change at most the entry under the
\* digest of k: every entry under another digest is kept with its value,
\* and get and contains of every key of another digest answer as before.
C9_Frame ==
    [][last'.op \in {"insert", "remove"} =>
          LET d == hash_one(state, last'.key[1])
          IN  /\ \A i \in DOMAIN map : i.hashed_key # d =>
                     i \in DOMAIN map' /\ map'[i] = map[i]
              /\ \A i \in DOMAIN map' : i.hashed_key # d => i \in DOMAIN map
              /\ \A q \in QueryKeys : hash_one(state, q) # d =>
                     /\ get(SelfNext, Owned(q.val)) = get(Self, Owned(q.val))
                     /\ contains(SelfNext, q) = contains(Self, q)]_vars

C9_Witness ==
    /\ last.op = "remove"
    /\ last.ret # None
    /\ \E k \in Keys : live[k] # None /\ get(Self, Owned(k)) = live[k]

\* C10 (table invariant): the hash state never changes, every digest in the
\* table is the digest of a key that was inserted and whose digest was not
\* removed since, and the table has at most as many entries as such keys.
C10_TableInvariant ==
    /\ [](/\ \A i \in DOMAIN map :
                 \E k \in Keys : live[k] # None /\ i.hashed_key = Digest(k)
          /\ Cardinality(DOMAIN map)
                 <= Cardinality({k \in Keys : live[k] # None}))
    /\ [][state' = state]_vars

C10_Witness ==
    /\ last.op = "remove"
    /\ last.ret # None
    /\ Cardinality(DOMAIN map) = 1
    /\ Cardinality({k \in Keys : live[k] # None}) = 1
    /\ ever = Keys

====
